---- MODULE Spec2Model ----
(***************************************************************************)
(* Facets of gigtags (src/facet.rs): validity, date-like suffix matching,  *)
(* prefix/suffix splitting, date parsing and construction.                 *)
(*                                                                         *)
(* A Rust &str is modelled as what it is: a sequence of bytes holding      *)
(* valid UTF-8.  Characters are Unicode scalar values (integers).          *)
(***************************************************************************)
EXTENDS Integers, Sequences, FiniteSets, TLC

(***************************************************************************)
(* Bounds of the model                                                     *)
(***************************************************************************)
\* longest head (in characters) put in front of the generated endings
MaxHeadLen == 2
\* number of threads that use the two patterns concurrently
NThreads == 2
\* calls each thread makes
MaxCalls == 1

(***************************************************************************)
(* Characters and UTF-8                                                    *)
(***************************************************************************)
TILDE == 126
SLASH == 47
MINUS == 45
PLUS == 43
ZERO == 48

\* char::is_whitespace / regex \s in Unicode mode: the White_Space property
IsWhitespace(c) ==
    \/ c \in 9..13
    \/ c = 32
    \/ c = 133
    \/ c = 160
    \/ c = 5760
    \/ c \in 8192..8202
    \/ c \in {8232, 8233, 8239, 8287, 12288}

\* regex \d in Unicode mode: General_Category = Decimal_Number.  The blocks
\* listed are the ASCII digits and the decimal digits of the scripts the
\* model's alphabet draws from.
IsDecimalNumber(c) ==
    \/ c \in 48..57          \* ASCII
    \/ c \in 1632..1641      \* Arabic-Indic
    \/ c \in 1776..1785      \* Extended Arabic-Indic
    \/ c \in 2406..2415      \* Devanagari
    \/ c \in 65296..65305    \* Fullwidth

IsAsciiDigitByte(b) == b \in 48..57

\* UTF-8 encoding of one scalar value
Utf8Char(c) ==
    IF c < 128 THEN <<c>>
    ELSE IF c < 2048 THEN <<192 + (c \div 64), 128 + (c % 64)>>
    ELSE IF c < 65536 THEN
        <<224 + (c \div 4096), 128 + ((c \div 64) % 64), 128 + (c % 64)>>
    ELSE <<240 + (c \div 262144), 128 + ((c \div 4096) % 64),
           128 + ((c \div 64) % 64), 128 + (c % 64)>>

\* the bytes of the string made of the characters cs
RECURSIVE Utf8(_)
Utf8(cs) == IF cs = <<>> THEN <<>> ELSE Utf8Char(Head(cs)) \o Utf8(Tail(cs))

\* width of the UTF-8 sequence introduced by the lead byte b
Utf8Width(b) ==
    IF b < 128 THEN 1 ELSE IF b < 224 THEN 2 ELSE IF b < 240 THEN 3 ELSE 4

\* the scalar value encoded by the w bytes of s that follow offset i
DecodeAt(s, i, w) ==
    IF w = 1 THEN s[i + 1]
    ELSE IF w = 2 THEN (s[i + 1] - 192) * 64 + (s[i + 2] - 128)
    ELSE IF w = 3 THEN
        (s[i + 1] - 224) * 4096 + (s[i + 2] - 128) * 64 + (s[i + 3] - 128)
    ELSE (s[i + 1] - 240) * 262144 + (s[i + 2] - 128) * 4096
         + (s[i + 3] - 128) * 64 + (s[i + 4] - 128)

\* str::chars(): the scalar values of the string s
RECURSIVE Chars(_)
Chars(s) ==
    IF s = <<>> THEN <<>>
    ELSE LET w == Utf8Width(s[1])
         IN  <<DecodeAt(s, 0, w)>> \o Chars(SubSeq(s, w + 1, Len(s)))

\* str::is_char_boundary(i)
is_char_boundary(s, i) ==
    \/ i = 0
    \/ i = Len(s)
    \/ (i < Len(s) /\ (s[i + 1] < 128 \/ s[i + 1] >= 192))

\* str::is_ascii()
is_ascii(s) == \A k \in 1..Len(s) : s[k] < 128

\* str::trim_start() / str::trim_end() / str::trim(), on the characters
RECURSIVE TrimStartChars(_)
TrimStartChars(cs) ==
    IF cs # <<>> /\ IsWhitespace(Head(cs)) THEN TrimStartChars(Tail(cs)) ELSE cs

RECURSIVE TrimEndChars(_)
TrimEndChars(cs) ==
    IF cs # <<>> /\ IsWhitespace(cs[Len(cs)])
    THEN TrimEndChars(SubSeq(cs, 1, Len(cs) - 1))
    ELSE cs

\* str::trim_start() alone, in the place of str::trim()
trim_start(s) == Utf8(TrimStartChars(Chars(s)))

trim(s) == Utf8(TrimEndChars(TrimStartChars(Chars(s))))

(***************************************************************************)
(* is_valid, is_empty                                                      *)
(***************************************************************************)
is_valid(facet) ==
    /\ trim(facet) = facet
    /\ ~(Len(facet) > 0 /\ facet[1] = SLASH)

is_empty(facet) == Len(facet) = 0

(***************************************************************************)
(* Option / Result values                                                  *)
(***************************************************************************)
None == [tag |-> "None"]
Some(v) == [tag |-> "Some", val |-> v]
Ok(v) == [tag |-> "Ok", val |-> v]
\* the call did not return: it ended in a panic
Panic == [tag |-> "Panic"]
Bool(b) == [tag |-> "Bool", val |-> b]
Unit == [tag |-> "Unit"]

(***************************************************************************)
(* regex::bytes::Regex: the two patterns and their matcher.  The patterns  *)
(* are compiled with the crate's defaults, i.e. in Unicode mode: a class   *)
(* matches one UTF-8 encoded scalar value, \s is White_Space and \d is     *)
(* Decimal_Number.                                                         *)
(***************************************************************************)
ReStart == [t |-> "start"]
ReEnd == [t |-> "end"]
ReLit(c) == [t |-> "class", name |-> "lit", c |-> c, neg |-> FALSE]
ReSpace == [t |-> "class", name |-> "space", c |-> 0, neg |-> FALSE]
ReNotSpace == [t |-> "class", name |-> "space", c |-> 0, neg |-> TRUE]
ReDigit == [t |-> "class", name |-> "digit", c |-> 0, neg |-> FALSE]
ReAlt(l, r) == [t |-> "alt", l |-> l, r |-> r]
ReCat(items) == [t |-> "cat", items |-> items]
\* max = -1: no upper limit
ReRep(item, min, max) == [t |-> "rep", item |-> item, min |-> min, max |-> max]

\* r"(^|[^\s])~\d{8}$"
DATE_LIKE_SUFFIX_PATTERN ==
    ReCat(<<ReAlt(ReStart, ReNotSpace), ReLit(TILDE), ReRep(ReDigit, 8, 8), ReEnd>>)

\* r"[\s]+~\d{8}$"
INVALID_DATE_LIKE_SUFFIX_PATTERN ==
    ReCat(<<ReRep(ReSpace, 1, -1), ReLit(TILDE), ReRep(ReDigit, 8, 8), ReEnd>>)

ClassHas(n, c) ==
    LET in == CASE n.name = "lit" -> c = n.c
                [] n.name = "space" -> IsWhitespace(c)
                [] n.name = "digit" -> IsDecimalNumber(c)
    IN  IF n.neg THEN ~in ELSE in

\* the offsets at which a match of node n that starts at offset i of s can end
RECURSIVE Ends(_, _, _)
RECURSIVE EndsCat(_, _, _)
RECURSIVE EndsRep(_, _, _, _, _)
Ends(n, s, i) ==
    CASE n.t = "start" -> IF i = 0 THEN {i} ELSE {}
      [] n.t = "end" -> IF i = Len(s) THEN {i} ELSE {}
      [] n.t = "class" ->
            IF i < Len(s) /\ (s[i + 1] < 128 \/ s[i + 1] >= 192)
            THEN LET w == Utf8Width(s[i + 1])
                 IN  IF i + w <= Len(s) /\ ClassHas(n, DecodeAt(s, i, w))
                     THEN {i + w} ELSE {}
            ELSE {}
      [] n.t = "alt" -> Ends(n.l, s, i) \cup Ends(n.r, s, i)
      [] n.t = "cat" -> EndsCat(n.items, s, {i})
      [] n.t = "rep" -> EndsRep(n.item, n.min, n.max, s, {i})

EndsCat(items, s, from) ==
    IF items = <<>> THEN from
    ELSE EndsCat(Tail(items), s, UNION {Ends(Head(items), s, i) : i \in from})

EndsRep(item, min, max, s, from) ==
    IF max = 0 \/ from = {} THEN from
    ELSE LET next == UNION {Ends(item, s, i) : i \in from}
             less == IF max > 0 THEN max - 1 ELSE max
         IN  IF min > 0 THEN EndsRep(item, min - 1, less, s, next)
             ELSE from \cup EndsRep(item, 0, less, s, next \ from)

\* Regex::is_match: an unanchored search
is_match(re, s) == \E i \in 0..Len(s) : Ends(re, s, i) # {}

(***************************************************************************)
(* try_split_into_prefix_and_date_like_suffix                              *)
(***************************************************************************)
\* the length of the digits alone, the separator forgotten
DATE_LIKE_SUFFIX_LEN_Digits == 4 + 2 + 2

\* ~yyyyMMdd
DATE_LIKE_SUFFIX_LEN == 1 + 8

\* a splitter that applies the matcher's whitespace rule to the prefix
try_split_unless_detached(facet) ==
    IF Len(facet) < 9 THEN None
    ELSE LET prefix_len == Len(facet) - 9
             date_suffix == SubSeq(facet, prefix_len + 1, Len(facet))
             prefix == SubSeq(facet, 1, prefix_len)
         IN  IF ~is_char_boundary(facet, prefix_len) THEN Panic
             ELSE IF ~is_ascii(date_suffix) THEN None
             ELSE IF prefix # trim(prefix) THEN None
             ELSE Some(<<prefix, date_suffix>>)

try_split_into_prefix_and_date_like_suffix(facet) ==
    IF Len(facet) < DATE_LIKE_SUFFIX_LEN THEN None
    ELSE LET prefix_len == Len(facet) - DATE_LIKE_SUFFIX_LEN
             date_suffix == SubSeq(facet, prefix_len + 1, Len(facet))
             prefix == SubSeq(facet, 1, prefix_len)
         IN  \* &facet[prefix_len..] panics off a character boundary
             IF ~is_char_boundary(facet, prefix_len) THEN Panic
             ELSE IF ~is_ascii(date_suffix) THEN None
             ELSE Some(<<prefix, date_suffix>>)

(***************************************************************************)
(* time::Date, its parser and its formatter for "~[year][month][day]"      *)
(***************************************************************************)
DATE_SUFFIX_FORMAT ==
    <<[item |-> "literal", bytes |-> <<TILDE>>], [item |-> "year"],
      [item |-> "month"], [item |-> "day"]>>

\* the Julian rule: every fourth year
is_leap_year_julian(year) == year % 4 = 0

is_leap_year(year) == (year % 4 = 0) /\ ((year % 25 # 0) \/ (year % 16 = 0))

days_in_year_month(year, month) ==
    IF month \in {1, 3, 5, 7, 8, 10, 12} THEN 31
    ELSE IF month \in {4, 6, 9, 11} THEN 30
    ELSE IF is_leap_year(year) THEN 29 ELSE 28

\* Date::from_calendar_date succeeds
IsDate(year, month, day) ==
    /\ year \in -9999..9999
    /\ month \in 1..12
    /\ day \in 1..days_in_year_month(year, month)

Date(year, month, day) == [year |-> year, month |-> month, day |-> day]

\* the value of the n ASCII digits at the start of input
RECURSIVE DigitsValue(_, _)
DigitsValue(input, n) ==
    IF n = 0 THEN 0 ELSE DigitsValue(input, n - 1) * 10 + (input[n] - ZERO)

\* exactly n ASCII digits, padded with zeros
exactly_n_digits(input, n) ==
    IF Len(input) >= n /\ \A k \in 1..n : IsAsciiDigitByte(input[k])
    THEN [ok |-> TRUE, rest |-> SubSeq(input, n + 1, Len(input)),
          value |-> DigitsValue(input, n)]
    ELSE [ok |-> FALSE, rest |-> input, value |-> 0]

\* one item of the format description, applied to the parsing state st
ParseItem(it, st) ==
    CASE it.item = "literal" ->
            IF Len(st.rest) >= Len(it.bytes)
               /\ SubSeq(st.rest, 1, Len(it.bytes)) = it.bytes
            THEN [st EXCEPT !.rest = SubSeq(st.rest, Len(it.bytes) + 1, Len(st.rest))]
            ELSE [st EXCEPT !.ok = FALSE]
      [] it.item = "year" ->
            LET signed == st.rest # <<>> /\ st.rest[1] \in {PLUS, MINUS}
                digits == IF signed THEN Tail(st.rest) ELSE st.rest
                num == exactly_n_digits(digits, 4)
            IN  IF ~num.ok THEN [st EXCEPT !.ok = FALSE]
                ELSE [st EXCEPT !.rest = num.rest,
                                !.year = IF signed /\ st.rest[1] = MINUS
                                         THEN 0 - num.value ELSE num.value]
      [] it.item = "month" ->
            LET num == exactly_n_digits(st.rest, 2)
            IN  IF ~num.ok THEN [st EXCEPT !.ok = FALSE]
                ELSE [st EXCEPT !.rest = num.rest, !.month = num.value]
      [] it.item = "day" ->
            LET num == exactly_n_digits(st.rest, 2)
            IN  IF ~num.ok THEN [st EXCEPT !.ok = FALSE]
                ELSE [st EXCEPT !.rest = num.rest, !.day = num.value]

RECURSIVE ParseItems(_, _)
ParseItems(items, st) ==
    IF items = <<>> \/ ~st.ok THEN st
    ELSE ParseItems(Tail(items), ParseItem(Head(items), st))

\* Date::parse(input, format).ok()
DateParse(input, format) ==
    LET st == ParseItems(format,
                  [ok |-> TRUE, rest |-> input, year |-> 0, month |-> 0, day |-> 0])
    IN  IF st.ok /\ st.rest = <<>> /\ IsDate(st.year, st.month, st.day)
        THEN Some(Date(st.year, st.month, st.day))
        ELSE None

\* the n decimal digits of value, zero padded, most significant first
RECURSIVE format_number(_, _)
format_number(value, n) ==
    IF n = 0 THEN <<>>
    ELSE format_number(value \div 10, n - 1) \o <<ZERO + (value % 10)>>

FormatItem(it, date) ==
    CASE it.item = "literal" -> it.bytes
      [] it.item = "year" ->
            (IF date.year < 0 THEN <<MINUS>> ELSE <<>>)
                \o format_number(IF date.year < 0 THEN 0 - date.year ELSE date.year, 4)
      [] it.item = "month" -> format_number(date.month, 2)
      [] it.item = "day" -> format_number(date.day, 2)

\* Date::format(format)
RECURSIVE DateFormat(_, _)
DateFormat(date, format) ==
    IF format = <<>> THEN <<>>
    ELSE FormatItem(Head(format), date) \o DateFormat(date, Tail(format))

try_split_into_prefix_and_date_suffix(facet) ==
    LET split == try_split_into_prefix_and_date_like_suffix(facet)
    IN  IF split.tag # "Some" THEN split
        ELSE Some(<<split.val[1], DateParse(split.val[2], DATE_SUFFIX_FORMAT)>>)

(***************************************************************************)
(* CompactFacet construction                                               *)
(***************************************************************************)
from_str(facet) == facet

from_prefix_with_date_suffix(prefix, date) ==
    LET suffix == DateFormat(date, DATE_SUFFIX_FORMAT)
    IN  Ok(prefix \o suffix)

\* prefix_args renders to the concatenation of its pieces
RECURSIVE Render(_)
Render(args) == IF args = <<>> THEN <<>> ELSE Head(args) \o Render(Tail(args))

from_prefix_args_with_date_suffix(prefix_args, date) ==
    LET suffix == DateFormat(date, DATE_SUFFIX_FORMAT)
    IN  Ok(Render(prefix_args) \o suffix)

(***************************************************************************)
(* once_cell::sync::OnceCell<Regex>: the two process-wide cells            *)
(***************************************************************************)
Cells == {"DATE_LIKE_SUFFIX_REGEX", "INVALID_DATE_LIKE_SUFFIX_REGEX"}

\* the closure each accessor hands to get_or_init: pattern.parse().unwrap()
InitClosure(c) ==
    IF c = "DATE_LIKE_SUFFIX_REGEX" THEN DATE_LIKE_SUFFIX_PATTERN
    ELSE INVALID_DATE_LIKE_SUFFIX_PATTERN

\* OnceCell::new()
OnceCellNew == [state |-> "INCOMPLETE", value |-> None]

\* OnceCell::get_or_init run to completion by a single caller
get_or_init(cellrec, c) ==
    IF cellrec.state = "COMPLETE" THEN cellrec
    ELSE [state |-> "COMPLETE", value |-> Some(InitClosure(c))]

(***************************************************************************)
(* Inputs                                                                  *)
(***************************************************************************)
\* 'a', ' ', '/', U+00E9 (two bytes), U+3000 IDEOGRAPHIC SPACE (three bytes)
HeadChars == {97, 32, SLASH, 233, 12288}
Heads == UNION {[1..n -> HeadChars] : n \in 0..MaxHeadLen}

D8(y, m, d) == format_number(y, 4) \o format_number(m, 2) \o format_number(d, 2)

GridYears == {1900, 2024}
GridDays == {29, 30}
Seps == {<<>>, <<TILDE>>}

\* what follows the separator, as characters
Bodies ==
    {D8(y, 2, d) : y \in GridYears, d \in GridDays}
    \cup {<<>>,
          D8(0, 0, 0), D8(9999, 99, 99), D8(2000, 2, 29), D8(2023, 2, 29),
          D8(1970, 2, 30), D8(0, 1, 1), D8(2024, 4, 31), D8(2024, 12, 31),
          D8(2024, 12, 32), D8(2024, 13, 1), D8(2024, 0, 1), D8(2024, 1, 0),
          \* seven and nine ASCII digits
          <<50, 48, 50, 52, 48, 50, 50>>,
          <<50, 48, 50, 52, 48, 50, 50, 57, 48>>,
          \* a sign in front of the year
          <<MINUS, 50, 48, 50, 52, 48, 50, 50>>,
          <<PLUS, 50, 48, 50, 52, 48, 50, 50>>,
          \* 20240229 in Arabic-Indic digits, entirely and in its last digit
          <<1634, 1632, 1634, 1636, 1632, 1634, 1634, 1641>>,
          <<50, 48, 50, 52, 48, 50, 50, 1641>>,
          \* a letter among the digits, another separator in front of them
          <<50, 48, 50, 52, 97, 50, 50, 57>>,
          <<MINUS>> \o D8(2022, 6, 25)}

Endings == {sep \o body : sep \in Seps, body \in Bodies}

InputYears == {-44, 1900, 2024}
InputMonths == {2, 12}
InputDays == {29, 31}
Dates ==
    {dt \in {Date(y, m, d) : y \in InputYears, m \in InputMonths, d \in InputDays} :
        IsDate(dt.year, dt.month, dt.day)}
NoDate == Date(0, 0, 0)

\* the pieces of the format arguments: the head cut in two at k
Pieces(h, k) == <<Utf8(SubSeq(h, 1, k)), Utf8(SubSeq(h, k + 1, Len(h)))>>
Cuts(h) == {k \in {0, 1} : k <= Len(h)}

Inputs ==
    {[kind |-> "str", s |-> Utf8(h \o e), args |-> <<>>, date |-> NoDate] :
        h \in Heads, e \in Endings}
    \cup {[kind |-> "prefix", s |-> Utf8(h), args |-> <<>>, date |-> dt] :
        h \in Heads, dt \in Dates}
    \cup UNION {{[kind |-> "prefix_args", s |-> Utf8(h), args |-> Pieces(h, k), date |-> dt] :
        k \in Cuts(h), dt \in Dates} : h \in Heads}

\* the facet the threads of the concurrent specification ask about: "a ~20240229"
SharedFacet == <<97, 32, TILDE>> \o D8(2024, 2, 29)
Threads == 1..NThreads
Fns == {"has_date_like_suffix", "has_invalid_date_like_suffix"}
CellOf(fn) ==
    IF fn = "has_date_like_suffix" THEN "DATE_LIKE_SUFFIX_REGEX"
    ELSE "INVALID_DATE_LIKE_SUFFIX_REGEX"

(***************************************************************************)
(* State                                                                   *)
(***************************************************************************)
VARIABLES
    input,    \* the arguments of the constructor call
    facet,    \* the string of the CompactFacet
    op,       \* the last operation called on the facet ("new": none yet)
    result,   \* what that operation returned
    cell,     \* the two OnceCell statics
    inits,    \* how often each cell's closure has run
    pc,       \* per thread: where it is in has_*_suffix / get_or_init
    call,     \* per thread: the function it is in
    seen,     \* per thread: what get_or_init handed it
    ret,      \* per thread: what its last call returned
    calls     \* per thread: the calls it has completed

vars == <<input, facet, op, result, cell, inits, pc, call, seen, ret, calls>>
facetVars == <<input, facet, op, result>>
threadVars == <<pc, call, seen, ret, calls>>

InitCells ==
    /\ cell = [c \in Cells |-> OnceCellNew]
    /\ inits = [c \in Cells |-> 0]

InitThreads ==
    /\ pc = [t \in Threads |-> "idle"]
    /\ call = [t \in Threads |-> "none"]
    /\ seen = [t \in Threads |-> None]
    /\ ret = [t \in Threads |-> Unit]
    /\ calls = [t \in Threads |-> 0]

\* CompactFacet::default() and the arguments of the constructor to come
Init ==
    /\ input \in Inputs
    /\ facet = <<>>
    /\ op = "new"
    /\ result = Unit
    /\ InitCells
    /\ InitThreads

(***************************************************************************)
(* Operations on one facet, called by a single thread                      *)
(***************************************************************************)
FromStr ==
    /\ op = "new"
    /\ input.kind = "str"
    /\ facet' = from_str(input.s)
    /\ op' = "from_str"
    /\ result' = Unit
    /\ UNCHANGED <<input, cell, inits, threadVars>>

FromPrefixWithDateSuffix ==
    /\ op = "new"
    /\ input.kind = "prefix"
    /\ LET r == from_prefix_with_date_suffix(input.s, input.date)
       IN  /\ facet' = r.val
           /\ result' = r
    /\ op' = "from_prefix_with_date_suffix"
    /\ UNCHANGED <<input, cell, inits, threadVars>>

FromPrefixArgsWithDateSuffix ==
    /\ op = "new"
    /\ input.kind = "prefix_args"
    /\ LET r == from_prefix_args_with_date_suffix(input.args, input.date)
       IN  /\ facet' = r.val
           /\ result' = r
    /\ op' = "from_prefix_args_with_date_suffix"
    /\ UNCHANGED <<input, cell, inits, threadVars>>

IsValid ==
    /\ op # "new"
    /\ op' = "is_valid"
    /\ result' = Bool(is_valid(facet))
    /\ UNCHANGED <<input, facet, cell, inits, threadVars>>

\* debug_assert!(is_valid(facet)): on a facet that is not valid the call
\* panics in a build with debug assertions and goes on in one without
DebugAssertFails ==
    /\ ~is_valid(facet)
    /\ result' = Panic

IsEmpty ==
    /\ op # "new"
    /\ op' = "is_empty"
    /\ \/ DebugAssertFails
       \/ result' = Bool(is_empty(facet))
    /\ UNCHANGED <<input, facet, cell, inits, threadVars>>

\* has_date_like_suffix / has_invalid_date_like_suffix: the first call
\* initialises the cell, every call matches with the cell's pattern
HasSuffix(fn) ==
    /\ op # "new"
    /\ op' = fn
    /\ \/ DebugAssertFails /\ UNCHANGED <<cell, inits>>
       \/ LET c == CellOf(fn)
              filled == get_or_init(cell[c], c)
          IN  /\ cell' = [cell EXCEPT ![c] = filled]
              /\ inits' = [inits EXCEPT ![c] = IF cell[c].state = "COMPLETE" THEN @ ELSE @ + 1]
              /\ result' = Bool(is_match(filled.value.val, facet))
    /\ UNCHANGED <<input, facet, threadVars>>

HasDateLikeSuffix == HasSuffix("has_date_like_suffix")

HasInvalidDateLikeSuffix == HasSuffix("has_invalid_date_like_suffix")

TrySplitIntoPrefixAndDateLikeSuffix ==
    /\ op # "new"
    /\ op' = "try_split_into_prefix_and_date_like_suffix"
    /\ \/ DebugAssertFails
       \/ result' = try_split_into_prefix_and_date_like_suffix(facet)
    /\ UNCHANGED <<input, facet, cell, inits, threadVars>>

TrySplitIntoPrefixAndDateSuffix ==
    /\ op # "new"
    /\ op' = "try_split_into_prefix_and_date_suffix"
    /\ \/ DebugAssertFails
       \/ result' = try_split_into_prefix_and_date_suffix(facet)
    /\ UNCHANGED <<input, facet, cell, inits, threadVars>>

Next ==
    \/ FromStr
    \/ FromPrefixWithDateSuffix
    \/ FromPrefixArgsWithDateSuffix
    \/ IsValid
    \/ IsEmpty
    \/ HasDateLikeSuffix
    \/ HasInvalidDateLikeSuffix
    \/ TrySplitIntoPrefixAndDateLikeSuffix
    \/ TrySplitIntoPrefixAndDateSuffix

Spec == Init /\ [][Next]_vars

(***************************************************************************)
(* has_date_like_suffix / has_invalid_date_like_suffix called by several   *)
(* threads: each step of OnceCell::get_or_init is an action of its own     *)
(***************************************************************************)
\* the facets are built and valid before the threads start
ConcInit ==
    /\ input = [kind |-> "str", s |-> SharedFacet, args |-> <<>>, date |-> NoDate]
    /\ facet = SharedFacet
    /\ op = "from_str"
    /\ result = Unit
    /\ InitCells
    /\ InitThreads

\* a thread enters one of the two functions
Call(t, fn) ==
    /\ pc[t] = "idle"
    /\ calls[t] < MaxCalls
    /\ call' = [call EXCEPT ![t] = fn]
    /\ seen' = [seen EXCEPT ![t] = None]
    /\ pc' = [pc EXCEPT ![t] = "get"]
    /\ UNCHANGED <<facetVars, cell, inits, ret, calls>>

\* OnceCell::get: the fast path, taken when the cell is already complete
Get(t) ==
    /\ pc[t] = "get"
    /\ LET c == CellOf(call[t])
       IN  IF cell[c].state = "COMPLETE"
           THEN /\ seen' = [seen EXCEPT ![t] = cell[c].value]
                /\ pc' = [pc EXCEPT ![t] = "match"]
           ELSE /\ pc' = [pc EXCEPT ![t] = "initialize"]
                /\ UNCHANGED seen
    /\ UNCHANGED <<facetVars, cell, inits, call, ret, calls>>

\* no exclusion: a cell that is being initialised can be claimed again
CanClaimRunning(cellrec) == cellrec.state # "COMPLETE"

\* the compare-and-swap INCOMPLETE -> RUNNING that elects the one initialiser
CanClaim(cellrec) == cellrec.state = "INCOMPLETE"

\* initialize_or_wait: claim the cell, or wait for the thread that did
Initialize(t) ==
    /\ pc[t] = "initialize"
    /\ LET c == CellOf(call[t])
       IN  IF cell[c].state = "COMPLETE"
           THEN /\ pc' = [pc EXCEPT ![t] = "read"]
                /\ UNCHANGED cell
           ELSE IF CanClaim(cell[c])
           THEN /\ cell' = [cell EXCEPT ![c].state = "RUNNING"]
                /\ pc' = [pc EXCEPT ![t] = "run"]
           ELSE /\ pc' = [pc EXCEPT ![t] = "wait"]
                /\ UNCHANGED cell
    /\ UNCHANGED <<facetVars, inits, call, seen, ret, calls>>

\* the initialiser runs the closure and writes the value into the slot
RunClosure(t) ==
    /\ pc[t] = "run"
    /\ LET c == CellOf(call[t])
       IN  /\ cell' = [cell EXCEPT ![c].value = Some(InitClosure(c))]
           /\ inits' = [inits EXCEPT ![c] = @ + 1]
    /\ pc' = [pc EXCEPT ![t] = "publish"]
    /\ UNCHANGED <<facetVars, call, seen, ret, calls>>

\* the initialiser's guard stores COMPLETE and wakes the waiters
Publish(t) ==
    /\ pc[t] = "publish"
    /\ cell' = [cell EXCEPT ![CellOf(call[t])].state = "COMPLETE"]
    /\ pc' = [pc EXCEPT ![t] = "read"]
    /\ UNCHANGED <<facetVars, inits, call, seen, ret, calls>>

\* a waiter is parked until the cell leaves RUNNING, then looks again
Wait(t) ==
    /\ pc[t] = "wait"
    /\ cell[CellOf(call[t])].state # "RUNNING"
    /\ pc' = [pc EXCEPT ![t] = "initialize"]
    /\ UNCHANGED <<facetVars, cell, inits, call, seen, ret, calls>>

\* get_unchecked: read the slot after initialize returned
Read(t) ==
    /\ pc[t] = "read"
    /\ seen' = [seen EXCEPT ![t] = cell[CellOf(call[t])].value]
    /\ pc' = [pc EXCEPT ![t] = "match"]
    /\ UNCHANGED <<facetVars, cell, inits, call, ret, calls>>

\* is_match with the pattern obtained, and return; matching with a slot
\* that was never written is a read of uninitialised memory
Match(t) ==
    /\ pc[t] = "match"
    /\ IF seen[t].tag = "Some"
       THEN ret' = [ret EXCEPT ![t] = Bool(is_match(seen[t].val, facet))]
       ELSE \E b \in {Bool(TRUE), Bool(FALSE), Panic} : ret' = [ret EXCEPT ![t] = b]
    /\ pc' = [pc EXCEPT ![t] = "idle"]
    /\ calls' = [calls EXCEPT ![t] = @ + 1]
    /\ UNCHANGED <<facetVars, cell, inits, call, seen>>

Step(t) ==
    \/ Get(t)
    \/ Initialize(t)
    \/ RunClosure(t)
    \/ Publish(t)
    \/ Wait(t)
    \/ Read(t)
    \/ Match(t)

ConcNext ==
    \/ \E t \in Threads, fn \in Fns : Call(t, fn)
    \/ \E t \in Threads : Step(t)

\* a thread that can take a step is eventually scheduled
ConcSpec == ConcInit /\ [][ConcNext]_vars /\ \A t \in Threads : WF_vars(Step(t))

(***************************************************************************)
(* Vocabulary of the properties: a facet seen as its characters            *)
(***************************************************************************)
IsAsciiDigit(c) == c \in 48..57

\* the last n characters of cs, and what precedes them
LastChars(cs, n) == SubSeq(cs, Len(cs) - n + 1, Len(cs))
ButLastChars(cs, n) == SubSeq(cs, 1, Len(cs) - n)

\* cs is '~' followed by exactly 8 ASCII decimal digits
IsTildeDigitsBlock(cs) ==
    /\ Len(cs) = 9
    /\ cs[1] = TILDE
    /\ \A k \in 2..9 : IsAsciiDigit(cs[k])

\* cs ends in the 9-character block '~DDDDDDDD'
EndsInBlock(cs) == Len(cs) >= 9 /\ IsTildeDigitsBlock(LastChars(cs, 9))

\* cs ends in the block and the block is preceded by a whitespace character
EndsInDetachedBlock(cs) ==
    /\ Len(cs) >= 10
    /\ IsTildeDigitsBlock(LastChars(cs, 9))
    /\ IsWhitespace(cs[Len(cs) - 9])

\* cs ends in the block and the block is not preceded by a whitespace character
EndsInAttachedBlock(cs) ==
    /\ EndsInBlock(cs)
    /\ (Len(cs) = 9 \/ ~IsWhitespace(cs[Len(cs) - 9]))

\* the calendar, stated on its own: the year, month and day written in a block
BlockYear(cs) ==
    (cs[2] - 48) * 1000 + (cs[3] - 48) * 100 + (cs[4] - 48) * 10 + (cs[5] - 48)
BlockMonth(cs) == (cs[6] - 48) * 10 + (cs[7] - 48)
BlockDay(cs) == (cs[8] - 48) * 10 + (cs[9] - 48)
LeapYear(y) == y % 4 = 0 /\ (y % 100 # 0 \/ y % 400 = 0)
MonthLength(y, m) ==
    CASE m = 2 -> IF LeapYear(y) THEN 29 ELSE 28
      [] m \in {4, 6, 9, 11} -> 30
      [] OTHER -> 31
IsRealDateBlock(cs) ==
    /\ IsTildeDigitsBlock(cs)
    /\ BlockMonth(cs) \in 1..12
    /\ BlockDay(cs) \in 1..MonthLength(BlockYear(cs), BlockMonth(cs))
BlockDate(cs) == Date(BlockYear(cs), BlockMonth(cs), BlockDay(cs))

SplitOps ==
    {"try_split_into_prefix_and_date_like_suffix", "try_split_into_prefix_and_date_suffix"}
Constructed == input.kind \in {"prefix", "prefix_args"} /\ op # "new"

(***************************************************************************)
(* Properties                                                              *)
(***************************************************************************)
\* C1: for every valid facet, has_date_like_suffix is true if and only if
\* the last 9 characters are '~' followed by 8 ASCII decimal digits and the
\* character before that block, if there is one, is not whitespace.
C1_DateLikeIffAsciiBlock ==
    (op = "has_date_like_suffix" /\ is_valid(facet))
        => result = Bool(EndsInAttachedBlock(Chars(facet)))

\* C2: for every valid facet, multi-byte characters included, the two split
\* functions return a value and never panic; they return None when the facet
\* has fewer than 9 characters and when its trailing 9 characters are not
\* pure ASCII.
C2_SplitNeverPanics ==
    (op \in SplitOps /\ is_valid(facet))
        => /\ result.tag # "Panic"
           /\ Len(Chars(facet)) < 9 => result = None
           /\ (Len(Chars(facet)) >= 9 /\ ~is_ascii(Utf8(LastChars(Chars(facet), 9))))
                => result = None

\* C3: when try_split_into_prefix_and_date_like_suffix returns Some((p, suf))
\* for a valid facet f, suf is the trailing 9 characters of f and p + suf = f.
C3_SplitCoversFacet ==
    (op = "try_split_into_prefix_and_date_like_suffix" /\ is_valid(facet)
        /\ result.tag = "Some")
        => /\ Len(Chars(facet)) >= 9
           /\ Chars(result.val[2]) = LastChars(Chars(facet), 9)
           /\ Chars(result.val[1]) = ButLastChars(Chars(facet), 9)
           /\ result.val[1] \o result.val[2] = facet

C3_Witness ==
    /\ op = "try_split_into_prefix_and_date_like_suffix"
    /\ is_valid(facet)
    /\ result.tag = "Some"
    /\ ~is_ascii(result.val[1])

\* C4: on a valid facet that the date-like split takes apart into (p, suf),
\* the date split returns Some((p, d)) with the same p; d is Some(date) exactly
\* when suf is '~' and 8 ASCII digits YYYYMMDD of a real calendar date, and
\* None otherwise; an invalid date never makes the split return None.
C4_DateSplitKeepsPrefix ==
    (op = "try_split_into_prefix_and_date_suffix" /\ is_valid(facet)
        /\ try_split_into_prefix_and_date_like_suffix(facet).tag = "Some")
        => LET like == try_split_into_prefix_and_date_like_suffix(facet).val
               suf == Chars(like[2])
           IN  result = Some(<<like[1],
                               IF IsRealDateBlock(suf) THEN Some(BlockDate(suf)) ELSE None>>)

C4_Witness ==
    /\ op = "try_split_into_prefix_and_date_suffix"
    /\ is_valid(facet)
    /\ result.tag = "Some"
    /\ result.val[1] # <<>>
    /\ result.val[2] = Some(Date(2024, 2, 29))

\* C5: on a valid facet that ends in whitespace followed by '~' and 8 digits,
\* has_date_like_suffix is false, yet the date-like split returns the block as
\* suffix and the rest, trailing whitespace included, as prefix, and the date
\* split returns that prefix with the parsed date when the digits are a real
\* calendar date.
C5_SplitIgnoresWhitespaceRule ==
    (is_valid(facet) /\ EndsInDetachedBlock(Chars(facet)))
        => LET cs == Chars(facet)
               p == Utf8(ButLastChars(cs, 9))
               suf == LastChars(cs, 9)
           IN  /\ op = "has_date_like_suffix" => result = Bool(FALSE)
               /\ op = "try_split_into_prefix_and_date_like_suffix"
                    => result = Some(<<p, Utf8(suf)>>)
               /\ op = "try_split_into_prefix_and_date_suffix"
                    => /\ result.tag = "Some"
                       /\ result.val[1] = p
                       /\ IsRealDateBlock(suf) => result.val[2] = Some(BlockDate(suf))

C5_Witness ==
    /\ op = "try_split_into_prefix_and_date_suffix"
    /\ is_valid(facet)
    /\ EndsInDetachedBlock(Chars(facet))
    /\ ~is_ascii(result.val[1])
    /\ result.val[2].tag = "Some"

\* C6: when from_prefix_with_date_suffix(p, d) returns Ok(f) with f valid, f is
\* p followed by the 9-character '~YYYYMMDD' suffix, and
\* try_split_into_prefix_and_date_suffix(f) returns Some((p, Some(d))).
C6_ConstructThenSplit ==
    (input.kind = "prefix" /\ op # "new" /\ is_valid(facet))
        => /\ Len(facet) = Len(input.s) + 9
           /\ SubSeq(facet, 1, Len(input.s)) = input.s
           /\ op = "try_split_into_prefix_and_date_suffix"
                => result = Some(<<input.s, Some(input.date)>>)

\* C7: for every valid facet, has_invalid_date_like_suffix is true if and only
\* if the facet ends with one or more whitespace characters immediately
\* followed by '~' and exactly 8 decimal digits.
C7_InvalidIffDetachedBlock ==
    (op = "has_invalid_date_like_suffix" /\ is_valid(facet))
        => result = Bool(EndsInDetachedBlock(Chars(facet)))

\* C8: a facet built from a prefix that ends in whitespace has an invalid
\* date-like suffix and no date-like suffix; a facet built from a prefix that
\* is empty or ends in a non-whitespace character has a date-like suffix and
\* no invalid one.
C8_PrefixDecidesShape ==
    (Constructed /\ is_valid(facet))
        => LET p == Chars(input.s)
               detached == p # <<>> /\ IsWhitespace(p[Len(p)])
           IN  /\ op = "has_invalid_date_like_suffix" => result = Bool(detached)
               /\ op = "has_date_like_suffix" => result = Bool(~detached)

\* C9: is_valid(s) is false if trimming whitespace from both ends changes s or
\* if s starts with '/', and true otherwise, for every string, the empty and
\* the non-ASCII ones included; it always returns a boolean.
C9_IsValid ==
    op = "is_valid"
        => LET cs == Chars(facet)
               trimChanges ==
                   cs # <<>> /\ (IsWhitespace(cs[1]) \/ IsWhitespace(cs[Len(cs)]))
               startsWithSlash == cs # <<>> /\ cs[1] = SLASH
           IN  /\ result = Bool(~(trimChanges \/ startsWithSlash))
               /\ facet = <<>> => result = Bool(TRUE)

C9_Witness ==
    /\ op = "is_valid"
    /\ facet = Utf8(<<97, 12288>>)
    /\ result = Bool(FALSE)

\* C10: under every interleaving of threads calling the two functions, each
\* pattern is computed and published at most once, every caller gets that
\* fully initialised pattern, a published pattern never changes, and every
\* call eventually returns.
C10_ComputeOncePublishOnce ==
    /\ [](\A c \in Cells : inits[c] <= 1)
    /\ [](\A c \in Cells :
            cell[c].state = "COMPLETE" => cell[c].value = Some(InitClosure(c)))
    /\ [](\A t \in Threads :
            pc[t] = "match" => seen[t] = Some(InitClosure(CellOf(call[t]))))
    /\ [][\A c \in Cells : cell[c].state = "COMPLETE" => cell'[c] = cell[c]]_vars
    /\ \A t \in Threads : (pc[t] # "idle") ~> (pc[t] = "idle")

C10_Witness ==
    \E t1, t2 \in Threads :
        /\ call[t1] = call[t2]
        /\ pc[t1] = "publish"
        /\ pc[t2] = "wait"

====
